---- MODULE Spec2Model ----
(***************************************************************************)
(* Model of the authentication / authorization core of ProxmoxMCP:         *)
(*   auth/providers.py   YartuMCPAuthProvider, SimpleTokenAuthProvider     *)
(*   auth/models.py      ProxmoxMCPToken                                   *)
(*   auth/middleware.py  ScopeRBAC, AuditMiddleware                        *)
(*   server_http.py      ProxmoxMCPHTTPServer                              *)
(*   examples/django_models.py  UserRole, ApplicationToken                 *)
(*                                                                         *)
(* Six specifications share the variables:                                 *)
(*   SpecLoader  the access token loader against the token repository      *)
(*   Spec        the middleware pipeline ScopeRBAC -> AuditMiddleware ->   *)
(*               tool handler, fed by an auth provider                     *)
(*   SpecServer  the server as ProxmoxMCPHTTPServer.__init__ builds it     *)
(*   SpecRepo    loads interleaved with issuance and repository changes    *)
(*   SpecIssuer  rows written by create_token and save                     *)
(*   SpecUtils   extract_bearer_token on Authorization headers             *)
(***************************************************************************)
EXTENDS Integers, Sequences, FiniteSets, TLC

VARIABLES
    \* ---- environment and token repository (Django side)
    DJANGO_AVAILABLE,   \* providers.py module flag
    USE_TZ,             \* Django setting: stored datetimes are timezone-aware
    tokens,             \* ApplicationToken table: digest -> record
    now,                \* the current instant (datetime.now())
    scheduled_updates,  \* digests with a last_used update scheduled by the loader
    issued_secrets,     \* raw secrets create_token returned to its callers
    \* ---- auth provider feeding the request context
    auth_provider,      \* which provider class authenticates bearer tokens
    valid_tokens,       \* SimpleTokenAuthProvider.valid_tokens
    \* ---- ScopeRBAC / AuditMiddleware / server construction
    tool_scope_mapping, \* ScopeRBAC.tool_scope_mapping
    default_scope,      \* ScopeRBAC.default_scope
    registry,           \* registered tools: name -> tags
    middleware,         \* FastMCP middleware list, in registration order
    log_requests,       \* AuditMiddleware.log_requests
    log_responses,      \* AuditMiddleware.log_responses
    no_auth,            \* command line option --no-auth
    use_django_auth,    \* ProxmoxMCPHTTPServer.use_django_auth
    \* ---- the request being handled
    pc,                 \* position of the request in the pipeline
    depth,              \* index of the middleware currently running
    method,             \* "call" | "list" | "load" | "none"
    presented,          \* credential presented: None or Some(raw token)
    db_up,              \* whether the repository lookup of this request completes
    access_token,       \* what get_access_token() returns: None or Some(token)
    req_tool,           \* ctx.message.name
    lookup_fails,       \* whether fastmcp.get_tool raises for this request
    log_fails,          \* whether the audit logger's writes raise for this request
    raises_at,          \* the step of ScopeRBAC's try block that raises for this request
    required_scopes,    \* ScopeRBAC.on_call_tool local: required_scopes
    forwarded,          \* number of times ScopeRBAC called call_next
    handler_runs,       \* number of times the tool handler ran
    result,             \* value returned / exception raised so far
    audit_log,          \* records written by AuditMiddleware for this request
    list_result,        \* what on_list_tools returned: None or Some(set of names)
    \* ---- auth/utils.py
    authorization_header,   \* header value handed to extract_bearer_token
    extracted               \* what extract_bearer_token returned for it

vars == <<DJANGO_AVAILABLE, USE_TZ, tokens, now, scheduled_updates,
          issued_secrets,
          auth_provider, valid_tokens,
          tool_scope_mapping, default_scope, registry, middleware,
          log_requests, log_responses, no_auth, use_django_auth,
          pc, depth, method, presented, db_up, access_token, req_tool,
          lookup_fails, log_fails, raises_at, required_scopes, forwarded, handler_runs,
          result, audit_log, list_result, authorization_header, extracted>>

utilVars == <<authorization_header, extracted>>

envVars == <<DJANGO_AVAILABLE, USE_TZ, tokens, scheduled_updates,
             issued_secrets,
             auth_provider, valid_tokens>>
cfgVars == <<tool_scope_mapping, default_scope, registry, middleware,
             log_requests, log_responses, no_auth, use_django_auth>>

-----------------------------------------------------------------------------
(* Bounds of the model *)

\* instants range over 0..MaxTime
MaxTime == 2

-----------------------------------------------------------------------------
(* Values *)

\* Python's None / an optional value
None == <<>>
Some(v) == <<v>>

\* scope names used by the providers and the middleware
Scopes == {"user", "write", "admin"}

\* seconds added to now() for a token without expiry
DAY_SECONDS == 86400

\* secrets.token_hex(32): the 64 hex digit secrets the generator may draw
TokenHexSecrets ==
    {"9f2c4e1ab07d5563c8e1f0a4b6d2735e9a1c0f8e7d6b5a4938271605f4e3d2c1"}

\* raw bearer tokens a client may present
RawTokens ==
    {"admin-token", "user-token", "write-token", "bad-token"}
        \cup TokenHexSecrets

\* hashlib.sha512(value).hexdigest(): a digest is never the raw value
hash_sha512(value) == <<"sha512", value>>

\* length of a sha512 hexdigest, the length ApplicationToken.save tests for
TOKEN_HASH_LEN == 128

\* A str held in a token_hash field is <<raw>> for a raw secret and carries
\* one leading "sha512" per application of the hash, so that
\* hash_token(<<raw>>) = hash_sha512(raw).
\* ApplicationToken.hash_token (django_models.py lines 71-74)
hash_token(value) == <<"sha512">> \o value

\* len() of a str held in a token_hash field
StrLen(value) == IF Len(value) = 1 THEN Len(value[1]) ELSE TOKEN_HASH_LEN

\* UserRole rows: is_superuser, can_write, can_admin
UserRoles == [is_superuser : BOOLEAN, can_write : BOOLEAN, can_admin : BOOLEAN]

\* Django users with an optional role
Users == [id : {1}, username : {"alice"}, is_superuser : BOOLEAN,
          role : {None} \cup {Some(r) : r \in UserRoles}]

\* ApplicationToken.PERMISSION_CHOICES
PERMISSION_CHOICES == {"read", "write", "admin"}

\* ApplicationToken rows (without the digest, which keys the table)
ApplicationTokens ==
    [user : Users, permission : PERMISSION_CHOICES,
     expires : {None} \cup {Some(t) : t \in 0..MaxTime},
     created_at : {0}, last_used : {None}, is_active : BOOLEAN]

-----------------------------------------------------------------------------
(* auth/models.py: ProxmoxMCPToken *)

\* user_id and token_hash are Optional fields: None or Some(value)
ProxmoxMCPToken(client_id, user_id, username, permission, expires_at, scopes, token_hash, is_superuser) ==
    [type |-> "ProxmoxMCPToken", client_id |-> client_id, user_id |-> user_id,
     username |-> username, permission |-> permission,
     expires_at |-> expires_at, scopes |-> scopes, token_hash |-> token_hash,
     is_superuser |-> is_superuser]

\* ProxmoxMCPToken.has_any_scope: bool(self.scopes & scopes)
has_any_scope(token_scopes, scopes) == (token_scopes \cap scopes) # {}

\* ProxmoxMCPToken.from_django_user (lines 31-63) at instant t
from_django_user(user, permission, expires_days, t) ==
    ProxmoxMCPToken(
        "proxmox-mcp", Some(user.id), user.username, permission,
        t + expires_days * DAY_SECONDS,
        {"user"} \cup
            (IF user.role # None
                THEN IF user.role[1].is_superuser THEN {"admin", "write"}
                     ELSE IF user.role[1].can_write THEN {"write"}
                     ELSE {}
                ELSE IF user.is_superuser THEN {"admin", "write"} ELSE {}),
        None, user.is_superuser)

\* ProxmoxMCPToken.is_expired (lines 77-79) at instant t
is_expired(tok, t) == t > tok.expires_at

-----------------------------------------------------------------------------
(* auth/providers.py: YartuMCPAuthProvider.load_access_token *)

\* django_models.py lines 111-115: ApplicationToken.is_expired at instant t;
\* timezone.now() has the awareness of the stored datetimes
ApplicationToken_is_expired(app_token, t) ==
    IF app_token.expires = None THEN FALSE
    ELSE t > app_token.expires[1]

\* variant of the expiry check with the comparison reversed
ExpiryRejects_reversed(app_token, t) ==
    app_token.expires # None /\ app_token.expires[1] >= t

\* variant of the expiry check reading a missing expiry as instant 0
ExpiryRejects_null_is_epoch(app_token, t) ==
    (IF app_token.expires = None THEN 0 ELSE app_token.expires[1]) <= t

\* line 91: app_token.expires and app_token.expires <= datetime.now()
ExpiryRejects(app_token, t) ==
    app_token.expires # None /\ app_token.expires[1] <= t

\* line 91 compares a stored datetime with the naive datetime.now(): with
\* timezone-aware stored datetimes the comparison raises TypeError
ExpiryCompareRaises(app_token, tz) == app_token.expires # None /\ tz

\* variant reading a missing role as no further scopes
DetermineScopes_no_role_no_scopes(user) ==
    {"user"} \cup
    (IF user.role # None
        THEN IF user.role[1].is_superuser THEN {"admin", "write"}
             ELSE IF user.role[1].can_write THEN {"write"}
             ELSE {}
        ELSE {})

\* variant granting a superuser role the admin scope alone
DetermineScopes_admin_without_write(user) ==
    {"user"} \cup
    (IF user.role # None
        THEN IF user.role[1].is_superuser THEN {"admin"}
             ELSE IF user.role[1].can_write THEN {"write"}
             ELSE {}
        ELSE IF user.is_superuser THEN {"admin", "write"} ELSE {})

\* variant in which the role's can_admin flag grants the admin scope
DetermineScopes_can_admin_grants_admin(user) ==
    {"user"} \cup
    (IF user.role # None
        THEN IF user.role[1].is_superuser \/ user.role[1].can_admin
                 THEN {"admin", "write"}
             ELSE IF user.role[1].can_write THEN {"write"}
             ELSE {}
        ELSE IF user.is_superuser THEN {"admin", "write"} ELSE {})

\* lines 95-105: scopes from the user's role, else from the user's flag
DetermineScopes(user) ==
    {"user"} \cup
    (IF user.role # None
        THEN IF user.role[1].is_superuser THEN {"admin", "write"}
             ELSE IF user.role[1].can_write THEN {"write"}
             ELSE {}
        ELSE IF user.is_superuser THEN {"admin", "write"} ELSE {})

\* the table as the provider finds it when it is constructed: the generated
\* secret was issued at instant 0, without expiry, to a user whose role has
\* every flag
RepoAtStart ==
    [d \in {hash_sha512(s) : s \in TokenHexSecrets} |->
        [user |-> [id |-> 1, username |-> "alice", is_superuser |-> FALSE,
                   role |-> Some([is_superuser |-> TRUE, can_write |-> TRUE,
                                  can_admin |-> TRUE])],
         permission |-> "read", expires |-> None, created_at |-> 0,
         last_used |-> None, is_active |-> TRUE]]

\* variant answering from the rows read when the provider was constructed
objects_get_cached_at_start(repo, token_hash) ==
    IF token_hash \in DOMAIN RepoAtStart THEN Some(RepoAtStart[token_hash])
    ELSE None

\* lines 86-88: ApplicationToken.objects.select_related(...).get(
\* token_hash=token_hash) on the table as it is now; None stands for
\* ObjectDoesNotExist
objects_get(repo, token_hash) ==
    IF token_hash \in DOMAIN repo THEN Some(repo[token_hash]) ELSE None

\* variant letting the caller through as a baseline user on a lookup error
LookupFailed_anonymous(token, t) ==
    Some(ProxmoxMCPToken("proxmox-mcp", None, "anonymous", "read",
                         t + DAY_SECONDS, {"user"}, None, FALSE))

\* lines 122-124: any exception but not-found is logged and gives None
LookupFailed(token, t) == None

\* lines 65-124
load_access_token(token, repo, t, django, tz, up) ==
    IF ~django THEN None                           \* lines 75-77
    ELSE IF ~up THEN LookupFailed(token, t)        \* lines 122-124
    ELSE LET token_hash == hash_sha512(token)
             found == objects_get(repo, token_hash) IN
         IF found = None THEN None                     \* lines 119-121
         ELSE LET app_token == found[1] IN
              IF ExpiryCompareRaises(app_token, tz)
                  THEN LookupFailed(token, t)                  \* lines 122-124
              ELSE IF ExpiryRejects(app_token, t) THEN None    \* lines 91-93
              ELSE Some(ProxmoxMCPToken(
                       "proxmox-mcp", Some(app_token.user.id),
                       app_token.user.username, app_token.permission,
                       IF app_token.expires # None THEN app_token.expires[1]
                                                   ELSE t + DAY_SECONDS,
                       DetermineScopes(app_token.user), Some(token_hash),
                       app_token.user.is_superuser))

-----------------------------------------------------------------------------
(* auth/providers.py: SimpleTokenAuthProvider *)

\* lines 177-181: the default token table
DefaultValidTokens ==
    [t \in {"admin-token", "user-token", "write-token"} |->
        IF t = "admin-token"
            THEN [scopes |-> {"admin", "write", "user"}, user |-> "admin"]
        ELSE IF t = "user-token"
            THEN [scopes |-> {"user"}, user |-> "user"]
        ELSE [scopes |-> {"write", "user"}, user |-> "writer"]]

\* line 177: valid_tokens or {...}
SimpleTokenAuthProvider_init(arg) ==
    IF arg = None \/ DOMAIN arg[1] = {} THEN DefaultValidTokens ELSE arg[1]

\* lines 183-205
simple_load_access_token(token, table, t) ==
    IF token \notin DOMAIN table THEN None
    ELSE Some(ProxmoxMCPToken("proxmox-mcp-simple", None, table[token].user,
                              "read", t + DAY_SECONDS, table[token].scopes,
                              None, "admin" \in table[token].scopes))

\* a token object of the auth framework that is not a ProxmoxMCPToken
ForeignToken ==
    [type |-> "AccessToken", client_id |-> "other", user_id |-> None,
     username |-> "", permission |-> "", expires_at |-> 0, scopes |-> {},
     token_hash |-> None, is_superuser |-> FALSE]

\* get_access_token(): the token the configured provider loaded for the
\* bearer credential of the request, None without credential or provider
get_access_token(provider, cred, repo, table, t, django, tz, up) ==
    IF cred = None \/ provider = "none" THEN None
    ELSE IF provider = "YartuMCPAuthProvider"
        THEN load_access_token(cred[1], repo, t, django, tz, up)
    ELSE IF provider = "SimpleTokenAuthProvider"
        THEN simple_load_access_token(cred[1], table, t)
    ELSE Some(ForeignToken)

\* isinstance(token, ProxmoxMCPToken) on a present token
IsProxmoxToken(tok) == tok # None /\ tok[1].type = "ProxmoxMCPToken"

-----------------------------------------------------------------------------
(* auth/middleware.py: ScopeRBAC scope resolution *)

\* lines 11-28: the module flag. ScopeRBAC and AuditMiddleware subclass
\* Middleware, a name bound only when the imports succeeded, so the classes
\* exist only where the flag is true
FASTMCP_AVAILABLE == TRUE

\* the 17 tools of the default table, which are the tools the server registers
DefaultTableNames ==
    {"delete_vm", "create_vm", "reset_vm", "stop_vm", "shutdown_vm",
     "start_vm", "execute_vm_command", "create_snapshot", "rollback_snapshot",
     "get_nodes", "get_node_status", "get_vms", "get_containers",
     "get_storage", "get_cluster_status", "get_vm_usage", "health"}

\* tool names a request may carry: the known tools and one unknown to the table
ToolNames == DefaultTableNames \cup {"custom_tool"}

\* lines 66-96
get_default_tool_scope_mapping ==
    [n \in DefaultTableNames |->
        IF n \in {"delete_vm", "create_vm", "reset_vm", "stop_vm"}
            THEN {"admin"}
        ELSE IF n \in {"shutdown_vm", "start_vm", "execute_vm_command",
                       "create_snapshot", "rollback_snapshot"}
            THEN {"write"}
        ELSE {"user"}]

\* line 58: tool_scope_mapping or self._get_default_tool_scope_mapping()
ScopeRBAC_init(arg) ==
    IF arg = None \/ DOMAIN arg[1] = {} THEN get_default_tool_scope_mapping
    ELSE arg[1]

\* variant consulting the table before the tags
get_tool_required_scopes_table_first(mapping, dflt, tool_name, tool_tags) ==
    IF tool_name \in DOMAIN mapping THEN mapping[tool_name]
    ELSE IF tool_tags # None /\ tool_tags[1] # {} THEN tool_tags[1]
    ELSE {dflt}

\* lines 98-118; tool_tags is None or Some(set of tags)
get_tool_required_scopes(mapping, dflt, tool_name, tool_tags) ==
    IF tool_tags # None /\ tool_tags[1] # {} THEN tool_tags[1]
    ELSE IF tool_name \in DOMAIN mapping THEN mapping[tool_name]
    ELSE {dflt}

\* providers.py lines 126-153: YartuMCPAuthProvider.get_required_scopes
get_required_scopes(tool_name) ==
    IF tool_name \in {"delete_vm", "create_vm", "reset_vm", "stop_vm",
                      "shutdown_vm"}
        THEN {"admin"}
    ELSE IF tool_name \in {"start_vm", "execute_vm_command",
                           "create_snapshot", "rollback_snapshot"}
        THEN {"write"}
    ELSE {"user"}

\* management/commands/run_mcp_server.py lines 132-150: the scope the command
\* prints for each tool
tool_info ==
    [n \in DefaultTableNames |->
        IF n \in {"create_vm", "stop_vm", "reset_vm", "delete_vm"}
            THEN "admin"
        ELSE IF n \in {"start_vm", "shutdown_vm", "execute_vm_command",
                       "create_snapshot", "rollback_snapshot"}
            THEN "write"
        ELSE "user"]

-----------------------------------------------------------------------------
(* State shared by the specifications *)

\* a request outcome: a returned value (exc = "none") or a raised exception
Outcome(exc, text, missing, held) ==
    [exc |-> exc, text |-> text, missing |-> missing, held |-> held]

NoOutcome == Outcome("pending", "", {}, {})

\* the repository without any token
EmptyRepo == [d \in {} |-> 0]

\* the request variables between two requests
IdleRequest ==
    /\ pc = "idle"
    /\ depth = 0
    /\ method = "none"
    /\ presented = None
    /\ db_up = TRUE
    /\ access_token = None
    /\ req_tool = ""
    /\ lookup_fails = FALSE
    /\ log_fails = FALSE
    /\ raises_at = "none"
    /\ required_scopes = {}
    /\ forwarded = 0
    /\ handler_runs = 0
    /\ result = NoOutcome
    /\ audit_log = <<>>
    /\ list_result = None
    /\ authorization_header = None
    /\ extracted = [returned |-> FALSE, token |-> None]

reqVars == <<pc, depth, method, presented, db_up, access_token, req_tool,
             lookup_fails, log_fails, raises_at, required_scopes, forwarded, handler_runs, result,
             audit_log, list_result>>

\* server_http.py line 80: the constructor argument is ignored
ServerUseDjangoAuth(arg) == FALSE

\* server_http.py lines 96-99: the provider is built only when auth is on
ServerAuthProvider(flag) == IF flag THEN "YartuMCPAuthProvider" ELSE "none"

\* server_http.py lines 110-124: FastMCP runs middleware in registration
\* order, the first registered outermost
setup_middleware(flag) ==
    IF flag THEN <<"ScopeRBAC", "AuditMiddleware">> ELSE <<>>

\* server_http.py lines 126-222: 17 tools registered without tags
ServerRegistry == [n \in DefaultTableNames |-> {}]

-----------------------------------------------------------------------------
(* SpecLoader: YartuMCPAuthProvider.load_access_token on the repository *)

\* repositories of the loader specification: empty, or one token of alice
LoaderRepos ==
    {EmptyRepo} \cup
    {[d \in {hash_sha512("user-token")} |-> rec] : rec \in ApplicationTokens}

InitLoader ==
    /\ DJANGO_AVAILABLE \in BOOLEAN
    /\ USE_TZ \in BOOLEAN
    /\ tokens \in LoaderRepos
    /\ now = 0
    /\ scheduled_updates = {}
    /\ issued_secrets = {}
    /\ auth_provider = "YartuMCPAuthProvider"
    /\ valid_tokens = DefaultValidTokens
    /\ tool_scope_mapping = get_default_tool_scope_mapping
    /\ default_scope = "user"
    /\ registry = ServerRegistry
    /\ middleware = setup_middleware(TRUE)
    /\ log_requests = TRUE
    /\ log_responses = FALSE
    /\ no_auth = FALSE
    /\ use_django_auth = TRUE
    /\ IdleRequest

\* one call of load_access_token(token); the loader writes nothing to the
\* repository and schedules nothing
LoadAccessToken ==
    /\ pc = "idle"
    /\ \E raw \in RawTokens, up \in BOOLEAN :
        /\ presented' = Some(raw)
        /\ db_up' = up
        /\ access_token' = load_access_token(raw, tokens, now,
                                             DJANGO_AVAILABLE, USE_TZ, up)
    /\ method' = "load"
    /\ pc' = "loaded"
    /\ UNCHANGED <<utilVars, envVars, cfgVars, now, depth, req_tool, lookup_fails, log_fails, raises_at,
                   required_scopes, forwarded, handler_runs, result,
                   audit_log, list_result>>

\* the caller of the loader is done with the token
LoadReturn ==
    /\ pc = "loaded"
    /\ pc' = "idle"
    /\ method' = "none"
    /\ presented' = None
    /\ db_up' = TRUE
    /\ access_token' = None
    /\ UNCHANGED <<utilVars, envVars, cfgVars, now, depth, req_tool, lookup_fails, log_fails, raises_at,
                   required_scopes, forwarded, handler_runs, result,
                   audit_log, list_result>>

\* time passes between requests
Tick ==
    /\ pc = "idle"
    /\ now < MaxTime
    /\ now' = now + 1
    /\ UNCHANGED <<utilVars, envVars, cfgVars, reqVars>>

\* a call of load_access_token whose awaited lookup (lines 86-88) does not
\* complete: the coroutine stays suspended and nothing is returned
LoadAccessTokenStalls ==
    /\ pc = "idle"
    /\ DJANGO_AVAILABLE
    /\ \E raw \in RawTokens : presented' = Some(raw)
    /\ db_up' = FALSE
    /\ method' = "load"
    /\ pc' = "waiting"
    /\ UNCHANGED <<utilVars, envVars, cfgVars, now, depth, access_token, req_tool,
                   lookup_fails, log_fails, raises_at, required_scopes, forwarded, handler_runs,
                   result, audit_log, list_result>>

\* the caller's deadline passes and the suspended load is cancelled
LoadCancelled ==
    /\ pc = "waiting"
    /\ pc' = "idle"
    /\ method' = "none"
    /\ presented' = None
    /\ db_up' = TRUE
    /\ UNCHANGED <<utilVars, envVars, cfgVars, now, depth, access_token, req_tool,
                   lookup_fails, log_fails, raises_at, required_scopes, forwarded, handler_runs,
                   result, audit_log, list_result>>

NextLoader ==
    \/ LoadAccessToken
    \/ LoadReturn
    \/ LoadAccessTokenStalls
    \/ LoadCancelled
    \/ Tick

SpecLoader == InitLoader /\ [][NextLoader]_vars

-----------------------------------------------------------------------------
(* Spec: the middleware pipeline *)

\* repository of the pipeline: three active tokens without expiry
PipelineRepo ==
    [d \in {hash_sha512("admin-token"), hash_sha512("user-token"),
            hash_sha512("write-token")} |->
        [user |-> [id |-> 1, username |-> "alice",
                   is_superuser |-> (d = hash_sha512("admin-token")),
                   role |-> IF d = hash_sha512("admin-token") THEN None
                            ELSE Some([is_superuser |-> FALSE,
                                       can_write |-> (d = hash_sha512("write-token")),
                                       can_admin |-> FALSE])],
         permission |-> "read", expires |-> None, created_at |-> 0,
         last_used |-> None, is_active |-> TRUE]]

\* token tables injected into SimpleTokenAuthProvider
ValidTokenArgs ==
    {None,
     Some([t \in {"admin-token", "user-token", "write-token"} |->
             [scopes |-> IF t = "admin-token" THEN {"admin"}
                         ELSE IF t = "user-token" THEN {}
                         ELSE {"write"},
              user |-> "bob"]]),
     Some([t \in {"admin-token", "write-token"} |->
             [scopes |-> IF t = "admin-token" THEN {"admin", "user"}
                         ELSE {"admin", "write"},
              user |-> "carol"]])}

\* the auth set-ups of the pipeline: provider, repository, token table
PipelineAuth ==
    {[provider |-> "YartuMCPAuthProvider", repo |-> PipelineRepo,
      table |-> DefaultValidTokens],
     [provider |-> "other", repo |-> EmptyRepo, table |-> DefaultValidTokens]}
    \cup {[provider |-> "SimpleTokenAuthProvider", repo |-> EmptyRepo,
           table |-> SimpleTokenAuthProvider_init(arg)] : arg \in ValidTokenArgs}

\* tool_scope_mapping arguments of ScopeRBAC(...): none, an empty dict, an
\* override of two tools, and a dict giving a tool the empty scope set
InjectedMappings ==
    {None,
     Some([n \in {} |-> {}]),
     Some([n \in {"custom_tool", "delete_vm"} |->
             IF n = "custom_tool" THEN {"admin"} ELSE {"user"}]),
     Some([n \in {"get_vms"} |-> {}])}

\* default_scope arguments of ScopeRBAC(...)
DefaultScopeArgs == {"user", "write"}

\* a registry whose tools carry tags, and one more tool than the table knows
TaggedRegistry ==
    [n \in ToolNames |->
        IF n = "delete_vm" THEN {"write"}
        ELSE IF n = "get_vms" THEN {"admin", "user"}
        ELSE {}]

Registries == {ServerRegistry, TaggedRegistry}

Init ==
    /\ DJANGO_AVAILABLE = TRUE
    /\ USE_TZ = FALSE
    /\ now = 0
    /\ scheduled_updates = {}
    /\ issued_secrets = {}
    /\ \E a \in PipelineAuth :
        /\ auth_provider = a.provider
        /\ tokens = a.repo
        /\ valid_tokens = a.table
    /\ \E arg \in InjectedMappings : tool_scope_mapping = ScopeRBAC_init(arg)
    /\ default_scope \in DefaultScopeArgs
    /\ registry \in Registries
    /\ middleware = setup_middleware(TRUE)
    /\ log_requests = TRUE
    /\ log_responses = FALSE
    /\ no_auth = FALSE
    /\ use_django_auth = TRUE
    /\ IdleRequest

\* control enters middleware d, or the tool handler behind the last one
Enter(d) ==
    IF d > Len(middleware) THEN pc' = "handler" /\ depth' = Len(middleware)
    ELSE pc' = "in" /\ depth' = d

\* control returns (or an exception propagates) to middleware d, or to the client
Leave(d) ==
    IF d = 0 THEN pc' = "done" /\ depth' = 0
    ELSE pc' = "out" /\ depth' = d

\* the steps of ScopeRBAC's try block before its decision at which an
\* unexpected exception may be raised: get_access_token() (lines 135, 184),
\* reading the operation name (lines 149, 188), _get_tool_required_scopes in
\* both of its calls (lines 148-151, 193-199); "none": no step raises
RaisingSteps == {"none", "token", "name", "scopes"}

\* variant in which the exception of a step is swallowed and the code goes on
StepRaises_swallowed(at, step) == FALSE

\* the step raises, and control passes to the except clause (lines 162, 215)
StepRaises(at, step) == at = step

\* a client sends tools/call
CallToolRequest ==
    /\ pc = "idle"
    /\ \E cred \in {None} \cup {Some(r) : r \in RawTokens},
          tool \in ToolNames, lf \in BOOLEAN, up \in BOOLEAN,
          wf \in BOOLEAN, ra \in RaisingSteps :
        /\ presented' = cred
        /\ db_up' = up
        /\ access_token' = get_access_token(auth_provider, cred, tokens,
                               valid_tokens, now, DJANGO_AVAILABLE, USE_TZ, up)
        /\ req_tool' = tool
        /\ lookup_fails' = lf
        /\ log_fails' = wf
        /\ raises_at' = ra
    /\ method' = "call"
    /\ Enter(1)
    /\ UNCHANGED <<utilVars, envVars, cfgVars, now, required_scopes, forwarded,
                   handler_runs, result, audit_log, list_result>>

\* the messages of the ToolErrors ScopeRBAC raises
MSG_AUTHENTICATION == "Kimlik dogrulama gerekli. Gecerli bir token saglayin."
MSG_AUTHORIZATION == "Bu islem icin gerekli yetkilere sahip degilsiniz"
MSG_WRAPPED == "Yetkilendirme hatasi"

\* variant raising the authorization message for a missing token
AuthenticationError_as_authorization ==
    Outcome("ToolError", MSG_AUTHORIZATION, {}, {})

\* middleware.py line 186
AuthenticationError == Outcome("ToolError", MSG_AUTHENTICATION, {}, {})

\* variant with the set difference taken the other way round
MissingScopes_swapped(required, held) == held \ required

\* middleware.py line 203: required_scopes - token.scopes
MissingScopes(required, held) == required \ held

\* variant naming the scopes of every token the provider knows
AuthorizationError_names_all_scopes(required, held) ==
    Outcome("ToolError", MSG_AUTHORIZATION, MissingScopes(required, held),
            held \cup UNION {valid_tokens[t].scopes : t \in DOMAIN valid_tokens}
                 \cup UNION {DetermineScopes(tokens[d].user) : d \in DOMAIN tokens})

\* middleware.py lines 204-207: the message names the missing and the held scopes
AuthorizationError(required, held) ==
    Outcome("ToolError", MSG_AUTHORIZATION, MissingScopes(required, held), held)

\* middleware.py lines 191-199: tags from the registry, else the name only
ResolveForCall(mapping, dflt, reg, tool_name, lf) ==
    IF tool_name \in DOMAIN reg /\ ~lf
        THEN get_tool_required_scopes(mapping, dflt, tool_name,
                                      Some(reg[tool_name]))
        ELSE get_tool_required_scopes(mapping, dflt, tool_name, None)

\* middleware.py lines 215-217: another exception leaves as a ToolError
WrappedError == Outcome("ToolError", MSG_WRAPPED, {}, {})

\* middleware.py line 202: the request is denied
Denied(required, held) == required # {} /\ ~has_any_scope(held, required)

\* ScopeRBAC.on_call_tool up to call_next (lines 183-210)
ScopeRBAC_on_call_tool ==
    /\ pc = "in"
    /\ middleware[depth] = "ScopeRBAC"
    /\ IF ~FASTMCP_AVAILABLE
          THEN /\ Enter(depth + 1)
               /\ UNCHANGED <<required_scopes, forwarded, result>>
       ELSE IF StepRaises(raises_at, "token")
          THEN /\ result' = WrappedError
               /\ Leave(depth - 1)
               /\ UNCHANGED <<required_scopes, forwarded>>
       ELSE IF ~IsProxmoxToken(access_token)
          THEN /\ result' = AuthenticationError
               /\ Leave(depth - 1)
               /\ UNCHANGED <<required_scopes, forwarded>>
       ELSE IF StepRaises(raises_at, "name") \/ StepRaises(raises_at, "scopes")
          THEN /\ result' = WrappedError
               /\ Leave(depth - 1)
               /\ UNCHANGED <<required_scopes, forwarded>>
          ELSE LET required == ResolveForCall(tool_scope_mapping, default_scope,
                                              registry, req_tool, lookup_fails)
                   held == access_token[1].scopes
               IN /\ required_scopes' = required
                  /\ IF Denied(required, held)
                        THEN /\ result' = AuthorizationError(required, held)
                             /\ Leave(depth - 1)
                             /\ UNCHANGED forwarded
                        ELSE /\ forwarded' = forwarded + 1
                             /\ Enter(depth + 1)
                             /\ UNCHANGED result
    /\ UNCHANGED <<utilVars, envVars, cfgVars, now, method, presented, db_up,
                   access_token, req_tool, lookup_fails, log_fails, raises_at, handler_runs,
                   audit_log, list_result>>

\* ScopeRBAC.on_call_tool after call_next (lines 210-217): a ToolError passes,
\* any other exception becomes a ToolError
ScopeRBAC_on_call_tool_return ==
    /\ pc = "out"
    /\ middleware[depth] = "ScopeRBAC"
    /\ result' = IF FASTMCP_AVAILABLE /\ result.exc = "Exception"
                    THEN WrappedError
                    ELSE result
    /\ Leave(depth - 1)
    /\ UNCHANGED <<utilVars, envVars, cfgVars, now, method, presented, db_up,
                   access_token, req_tool, lookup_fails, log_fails, raises_at, required_scopes,
                   forwarded, handler_runs, audit_log, list_result>>

\* middleware.py line 254: user_info
UserInfo(tok) ==
    IF tok # None /\ tok[1].type = "ProxmoxMCPToken"
        THEN <<"user", tok[1].username>>
        ELSE <<"anonymous">>

AuditRecord(event, user_info, tool) ==
    [event |-> event, user_info |-> user_info, tool |-> tool]

\* the exception a failing write of the audit logger raises
LogWriteError == Outcome("Exception", "audit write failed", {}, {})

\* AuditMiddleware.on_call_tool up to call_next (lines 249-260): the request
\* line is written inside the try; when the write raises, the except clause
\* (lines 267-269) tries to write the failure line and raises
AuditMiddleware_on_call_tool ==
    /\ pc = "in"
    /\ middleware[depth] = "AuditMiddleware"
    /\ IF FASTMCP_AVAILABLE /\ log_requests /\ log_fails
          THEN /\ result' = LogWriteError
               /\ Leave(depth - 1)
               /\ UNCHANGED audit_log
          ELSE /\ audit_log' =
                    IF FASTMCP_AVAILABLE /\ log_requests
                       THEN Append(audit_log,
                                AuditRecord("called", UserInfo(access_token),
                                            req_tool))
                       ELSE audit_log
               /\ Enter(depth + 1)
               /\ UNCHANGED result
    /\ UNCHANGED <<utilVars, envVars, cfgVars, now, method, presented, db_up,
                   access_token, req_tool, lookup_fails, log_fails, raises_at,
                   required_scopes, forwarded, handler_runs, list_result>>

\* AuditMiddleware.on_call_tool after call_next (lines 260-269): a write
\* that raises replaces the outcome by its own exception
AuditMiddleware_on_call_tool_return ==
    /\ pc = "out"
    /\ middleware[depth] = "AuditMiddleware"
    /\ LET writes == FASTMCP_AVAILABLE /\ (result.exc # "none" \/ log_responses)
       IN IF writes /\ log_fails
             THEN /\ result' = LogWriteError
                  /\ UNCHANGED audit_log
             ELSE /\ audit_log' =
                       IF ~writes THEN audit_log
                       ELSE Append(audit_log,
                                AuditRecord(IF result.exc # "none"
                                               THEN "failed" ELSE "completed",
                                            UserInfo(access_token), req_tool))
                  /\ UNCHANGED result
    /\ Leave(depth - 1)
    /\ UNCHANGED <<utilVars, envVars, cfgVars, now, method, presented, db_up,
                   access_token, req_tool, lookup_fails, log_fails, raises_at,
                   required_scopes, forwarded, handler_runs, list_result>>

\* what a registered tool function may do: return, or raise
HandlerOutcomes ==
    {Outcome("none", "tool result", {}, {}),
     Outcome("ToolError", "tool error", {}, {}),
     Outcome("Exception", "tool exception", {}, {})}

\* the end of the chain: the registered tool function runs (server_http.py
\* lines 126-222); a name that is not registered runs nothing and fails
ToolHandler ==
    /\ pc = "handler"
    /\ IF req_tool \in DOMAIN registry
          THEN /\ handler_runs' = handler_runs + 1
               /\ result' \in HandlerOutcomes
          ELSE /\ handler_runs' = handler_runs
               /\ result' = Outcome("Exception", "unknown tool", {}, {})
    /\ Leave(Len(middleware))
    /\ UNCHANGED <<utilVars, envVars, cfgVars, now, method, presented, db_up,
                   access_token, req_tool, lookup_fails, log_fails, raises_at, required_scopes,
                   forwarded, audit_log, list_result>>

\* the response leaves the server; the request context is dropped
Respond ==
    /\ pc = "done"
    /\ pc' = "idle"
    /\ depth' = 0
    /\ method' = "none"
    /\ presented' = None
    /\ db_up' = TRUE
    /\ access_token' = None
    /\ req_tool' = ""
    /\ lookup_fails' = FALSE
    /\ log_fails' = FALSE
    /\ raises_at' = "none"
    /\ required_scopes' = {}
    /\ forwarded' = 0
    /\ handler_runs' = 0
    /\ result' = NoOutcome
    /\ audit_log' = <<>>
    /\ list_result' = None
    /\ UNCHANGED <<utilVars, envVars, cfgVars, now>>

\* a client sends tools/list
ListToolsRequest ==
    /\ pc = "idle"
    /\ \E cred \in {None} \cup {Some(r) : r \in RawTokens}, up \in BOOLEAN,
          lf \in BOOLEAN, ra \in RaisingSteps :
        /\ presented' = cred
        /\ db_up' = up
        /\ lookup_fails' = lf
        /\ raises_at' = ra
        /\ access_token' = get_access_token(auth_provider, cred, tokens,
                               valid_tokens, now, DJANGO_AVAILABLE, USE_TZ, up)
    /\ method' = "list"
    /\ pc' = "list"
    /\ UNCHANGED <<utilVars, envVars, cfgVars, now, depth, req_tool, log_fails,
                   required_scopes, forwarded, handler_runs, result,
                   audit_log, list_result>>

\* middleware.py lines 143-153: the tools the token may see
AllowedTools(mapping, dflt, reg, held) ==
    {n \in DOMAIN reg :
        LET required == get_tool_required_scopes(mapping, dflt, n, Some(reg[n]))
        IN required = {} \/ has_any_scope(held, required)}

\* variant returning every tool when there is no valid token
ListWithoutToken_unfiltered(reg) == DOMAIN reg

\* middleware.py lines 136-138: no valid token, the empty list
ListWithoutToken(reg) == {}

\* ScopeRBAC.on_list_tools (lines 134-164); lookup_fails: call_next raises
ScopeRBAC_on_list_tools ==
    /\ pc = "list"
    /\ list_result' =
         IF ~FASTMCP_AVAILABLE THEN Some(DOMAIN registry)
         ELSE IF StepRaises(raises_at, "token") THEN Some({})
         ELSE IF ~IsProxmoxToken(access_token) THEN Some(ListWithoutToken(registry))
         ELSE IF lookup_fails THEN Some({})
         ELSE IF StepRaises(raises_at, "name") \/ StepRaises(raises_at, "scopes")
            THEN Some({})
         ELSE Some(AllowedTools(tool_scope_mapping, default_scope, registry,
                                access_token[1].scopes))
    /\ result' = Outcome("none", "tool list", {}, {})
    /\ pc' = "done"
    /\ UNCHANGED <<utilVars, envVars, cfgVars, now, depth, method, presented, db_up,
                   access_token, req_tool, lookup_fails, log_fails, raises_at, required_scopes,
                   forwarded, handler_runs, audit_log>>

Next ==
    \/ CallToolRequest
    \/ ScopeRBAC_on_call_tool
    \/ AuditMiddleware_on_call_tool
    \/ ToolHandler
    \/ AuditMiddleware_on_call_tool_return
    \/ ScopeRBAC_on_call_tool_return
    \/ ListToolsRequest
    \/ ScopeRBAC_on_list_tools
    \/ Respond

Spec == Init /\ [][Next]_vars

-----------------------------------------------------------------------------
(* SpecServer: the server as ProxmoxMCPHTTPServer.__init__ builds it *)

\* token tables the deployment may hold
ServerRepos == {EmptyRepo, PipelineRepo}

\* server_http.py lines 59-124 and 337-352: the command passes
\* use_django_auth = not no_auth; ScopeRBAC() and AuditMiddleware(True, False)
\* are built with their defaults
InitServer ==
    /\ DJANGO_AVAILABLE \in BOOLEAN
    /\ USE_TZ = FALSE
    /\ now = 0
    /\ scheduled_updates = {}
    /\ issued_secrets = {}
    /\ tokens \in ServerRepos
    /\ valid_tokens = DefaultValidTokens
    /\ no_auth \in BOOLEAN
    /\ use_django_auth = ServerUseDjangoAuth(~no_auth)
    /\ auth_provider = ServerAuthProvider(use_django_auth)
    /\ middleware = setup_middleware(use_django_auth)
    /\ tool_scope_mapping = ScopeRBAC_init(None)
    /\ default_scope = "user"
    /\ registry = ServerRegistry
    /\ log_requests = TRUE
    /\ log_responses = FALSE
    /\ IdleRequest

NextServer == CallToolRequest \/ ToolHandler \/ Respond

SpecServer == InitServer /\ [][NextServer]_vars

-----------------------------------------------------------------------------
(* SpecRepo: the life of a token in the repository, and the loader on it *)

\* instants reach MaxDays days and MaxTime seconds
MaxDays == 1

\* variant of save that hashes whatever the field holds
save_token_hash_always(value) == hash_token(value)

\* ApplicationToken.save (django_models.py lines 65-69): the value that
\* reaches the token_hash column
save_token_hash(value) ==
    IF StrLen(value) # 0 /\ StrLen(value) # TOKEN_HASH_LEN
        THEN hash_token(value)
        ELSE value

\* expires_days arguments of create_token
ExpiresDaysArgs == {None, Some(0), Some(1)}

\* ApplicationToken.create_token (django_models.py lines 76-109) at instant
\* t: the row handed to objects.create
create_token(user, permission, expires_days, t) ==
    [user |-> user, permission |-> permission,
     expires |-> IF expires_days # None /\ expires_days[1] # 0
                    THEN Some(t + expires_days[1] * DAY_SECONDS)
                    ELSE None,
     created_at |-> t, last_used |-> None, is_active |-> TRUE]

\* the table with one more row, or with the row of that key replaced
WithRow(repo, key, row) ==
    [d \in DOMAIN repo \cup {key} |-> IF d = key THEN row ELSE repo[d]]

\* the rows of one user carry the same user, role included
SameUserRows(repo, user) ==
    \A d \in DOMAIN repo : repo[d].user.id = user.id => repo[d].user = user

\* the table with the role of every user replaced (one user owns the rows)
WithRole(repo, role) ==
    [d \in DOMAIN repo |->
        [repo[d] EXCEPT !.user = [repo[d].user EXCEPT !.role = role]]]

InitRepo ==
    /\ DJANGO_AVAILABLE = TRUE
    /\ USE_TZ \in BOOLEAN
    /\ tokens = RepoAtStart
    /\ now = 0
    /\ scheduled_updates = {}
    /\ issued_secrets = TokenHexSecrets
    /\ auth_provider = "YartuMCPAuthProvider"
    /\ valid_tokens = DefaultValidTokens
    /\ tool_scope_mapping = get_default_tool_scope_mapping
    /\ default_scope = "user"
    /\ registry = ServerRegistry
    /\ middleware = setup_middleware(TRUE)
    /\ log_requests = TRUE
    /\ log_responses = FALSE
    /\ no_auth = FALSE
    /\ use_django_auth = TRUE
    /\ IdleRequest

\* ApplicationToken.create_token(user, name, permission, expires_days): the
\* digest of a fresh secret keys the new row (token_hash is unique)
CreateToken ==
    /\ pc = "idle"
    /\ \E user \in Users, permission \in PERMISSION_CHOICES,
          expires_days \in ExpiresDaysArgs, raw_token \in TokenHexSecrets :
        LET token_hash == save_token_hash(hash_token(<<raw_token>>)) IN
        /\ token_hash \notin DOMAIN tokens
        /\ SameUserRows(tokens, user)
        /\ tokens' = WithRow(tokens, token_hash,
                             create_token(user, permission, expires_days, now))
        /\ issued_secrets' = issued_secrets \cup {raw_token}
    /\ UNCHANGED <<utilVars, DJANGO_AVAILABLE, USE_TZ, scheduled_updates, auth_provider,
                   valid_tokens, cfgVars, now, reqVars>>

\* the flags of the owner's role are edited, or a role is assigned
ChangeRoleFlags ==
    /\ pc = "idle"
    /\ \E role \in UserRoles :
        /\ tokens' = WithRole(tokens, Some(role))
        /\ tokens' # tokens
    /\ UNCHANGED <<utilVars, DJANGO_AVAILABLE, USE_TZ, scheduled_updates, issued_secrets,
                   auth_provider, valid_tokens, cfgVars, now, reqVars>>

\* the owner's role is deleted: on_delete=SET_NULL leaves the user without
RemoveRole ==
    /\ pc = "idle"
    /\ tokens' = WithRole(tokens, None)
    /\ tokens' # tokens
    /\ UNCHANGED <<utilVars, DJANGO_AVAILABLE, USE_TZ, scheduled_updates, issued_secrets,
                   auth_provider, valid_tokens, cfgVars, now, reqVars>>

\* the expiry of a token is edited: cleared, set to now, or to a day ahead
ChangeExpiry ==
    /\ pc = "idle"
    /\ \E d \in DOMAIN tokens,
          e \in {None, Some(now), Some(now + DAY_SECONDS)} :
        /\ tokens[d].expires # e
        /\ tokens' = WithRow(tokens, d, [tokens[d] EXCEPT !.expires = e])
    /\ UNCHANGED <<utilVars, DJANGO_AVAILABLE, USE_TZ, scheduled_updates, issued_secrets,
                   auth_provider, valid_tokens, cfgVars, now, reqVars>>

\* a token row is deleted
DeleteToken ==
    /\ pc = "idle"
    /\ \E d \in DOMAIN tokens :
        tokens' = [k \in DOMAIN tokens \ {d} |-> tokens[k]]
    /\ UNCHANGED <<utilVars, DJANGO_AVAILABLE, USE_TZ, scheduled_updates, issued_secrets,
                   auth_provider, valid_tokens, cfgVars, now, reqVars>>

\* a day passes between requests
AdvanceDay ==
    /\ pc = "idle"
    /\ now + DAY_SECONDS <= MaxDays * DAY_SECONDS + MaxTime
    /\ now' = now + DAY_SECONDS
    /\ UNCHANGED <<utilVars, envVars, cfgVars, reqVars>>

NextRepo ==
    \/ CreateToken
    \/ ChangeRoleFlags
    \/ RemoveRole
    \/ ChangeExpiry
    \/ DeleteToken
    \/ LoadAccessToken
    \/ LoadReturn
    \/ Tick
    \/ AdvanceDay

SpecRepo == InitRepo /\ [][NextRepo]_vars

-----------------------------------------------------------------------------
(* SpecIssuer: rows reaching the repository through create_token and save *)

\* utils.generate_token(64), that is secrets.token_hex(64): a raw secret of
\* 128 hex digits
TokenHex64Secrets ==
    {"3b7e1f90a2c4d6e8f0123456789abcdeffedcba98765432100f1e2d3c4b5a69788796a5b4c3d2e1f00112233445566778899aabbccddeeff0a1b2c3d4e5f6a7b"}

\* raw secrets a caller may put into token_hash before save()
RawSecrets == {"user-token"} \cup TokenHexSecrets \cup TokenHex64Secrets

\* token_hash values handed to save(): a raw secret, or its digest
SaveArgs == {<<r>> : r \in RawSecrets} \cup {hash_token(<<r>>) : r \in RawSecrets}

InitIssuer ==
    /\ DJANGO_AVAILABLE = TRUE
    /\ USE_TZ = FALSE
    /\ tokens = EmptyRepo
    /\ now = 0
    /\ scheduled_updates = {}
    /\ issued_secrets = {}
    /\ auth_provider = "YartuMCPAuthProvider"
    /\ valid_tokens = DefaultValidTokens
    /\ tool_scope_mapping = get_default_tool_scope_mapping
    /\ default_scope = "user"
    /\ registry = ServerRegistry
    /\ middleware = setup_middleware(TRUE)
    /\ log_requests = TRUE
    /\ log_responses = FALSE
    /\ no_auth = FALSE
    /\ use_django_auth = TRUE
    /\ IdleRequest

\* ApplicationToken(user=user, token_hash=value, ...).save(): a new row whose
\* token_hash column holds what save() made of the value (lines 65-69)
SaveToken ==
    /\ pc = "idle"
    /\ \E user \in Users, value \in SaveArgs :
        LET token_hash == save_token_hash(value) IN
        /\ token_hash \notin DOMAIN tokens
        /\ SameUserRows(tokens, user)
        /\ tokens' = WithRow(tokens, token_hash,
                             [user |-> user, permission |-> "read",
                              expires |-> None, created_at |-> now,
                              last_used |-> None, is_active |-> TRUE])
    /\ UNCHANGED <<utilVars, DJANGO_AVAILABLE, USE_TZ, scheduled_updates, issued_secrets,
                   auth_provider, valid_tokens, cfgVars, now, reqVars>>

\* the table after the row under key d came to hold token_hash and row
Rekeyed(repo, d, token_hash, row) ==
    [k \in (DOMAIN repo \ {d}) \cup {token_hash} |->
        IF k = token_hash THEN row ELSE repo[k]]

\* token.save() on a row read from the table (lines 65-69): every column is
\* written, token_hash as save() leaves it
SaveAgain ==
    /\ pc = "idle"
    /\ \E d \in DOMAIN tokens :
        LET token_hash == save_token_hash(d) IN
        /\ token_hash \notin DOMAIN tokens \ {d}
        /\ tokens' = Rekeyed(tokens, d, token_hash, tokens[d])
    /\ UNCHANGED <<utilVars, DJANGO_AVAILABLE, USE_TZ, scheduled_updates, issued_secrets,
                   auth_provider, valid_tokens, cfgVars, now, reqVars>>

\* token.update_last_used() (lines 117-120): last_used becomes now and
\* save(update_fields=['last_used']) writes that column alone
UpdateLastUsed ==
    /\ pc = "idle"
    /\ \E d \in DOMAIN tokens :
        tokens' = WithRow(tokens, d, [tokens[d] EXCEPT !.last_used = Some(now)])
    /\ UNCHANGED <<utilVars, DJANGO_AVAILABLE, USE_TZ, scheduled_updates, issued_secrets,
                   auth_provider, valid_tokens, cfgVars, now, reqVars>>

NextIssuer ==
    \/ CreateToken
    \/ SaveToken
    \/ SaveAgain
    \/ UpdateLastUsed

SpecIssuer == InitIssuer /\ [][NextIssuer]_vars

-----------------------------------------------------------------------------
(* SpecUtils: auth/utils.py extract_bearer_token on Authorization headers *)

\* A header value is a sequence of characters. Characters str.split() takes
\* for whitespace
Whitespace == {" ", "\t"}

\* str.lower() on one character, for the letters the headers use
LowerChar(c) ==
    CASE c = "A" -> "a" [] c = "B" -> "b" [] c = "C" -> "c" [] c = "E" -> "e"
      [] c = "I" -> "i" [] c = "R" -> "r" [] c = "S" -> "s" [] OTHER -> c

\* variant of lower() leaving the string as it is
str_lower_verbatim(str) == str

\* str.lower()
str_lower(str) == [i \in 1..Len(str) |-> LowerChar(str[i])]

\* length of the leading run of non-whitespace characters
WordLen(str) ==
    IF \E i \in 1..Len(str) : str[i] \in Whitespace
        THEN (CHOOSE i \in 1..Len(str) :
                 /\ str[i] \in Whitespace
                 /\ \A j \in 1..(i - 1) : str[j] \notin Whitespace) - 1
        ELSE Len(str)

\* str.split(): the runs of non-whitespace characters, in order
RECURSIVE str_split(_)
str_split(str) ==
    IF str = <<>> THEN <<>>
    ELSE IF Head(str) \in Whitespace THEN str_split(Tail(str))
    ELSE <<SubSeq(str, 1, WordLen(str))>>
            \o str_split(SubSeq(str, WordLen(str) + 1, Len(str)))

\* the literal 'bearer' of line 79
BEARER == <<"b", "e", "a", "r", "e", "r">>

\* extract_bearer_token (utils.py lines 65-82); the header is None or Some
extract_bearer_token(header) ==
    IF header = None \/ header[1] = <<>> THEN None          \* lines 75-76
    ELSE LET parts == str_split(header[1]) IN
         IF Len(parts) # 2 \/ str_lower(parts[1]) # BEARER  \* lines 78-80
             THEN None
             ELSE Some(parts[2])                            \* line 82

\* the pieces the model builds header values from
HeaderLeads == {<<>>, <<" ">>}
HeaderSchemes ==
    {<<"B", "e", "a", "r", "e", "r">>, <<"b", "e", "a", "r", "e", "r">>,
     <<"B", "E", "A", "R", "E", "R">>, <<"B", "a", "s", "i", "c">>,
     <<"B", "e", "a", "r", "e", "r", "s">>, <<>>}
HeaderSeparators == {<<>>, <<" ">>, <<" ", " ">>, <<"\t">>}
HeaderTokens == {<<>>, <<"t", "1">>, <<"T", "b">>, <<"t", "1", " ", "x">>}
HeaderTrails == {<<>>, <<" ">>}

\* the Authorization header values a request may carry, or none
Headers ==
    {None} \cup
    {Some(a \o b \o c \o d \o e) :
        a \in HeaderLeads, b \in HeaderSchemes, c \in HeaderSeparators,
        d \in HeaderTokens, e \in HeaderTrails}

InitUtils ==
    /\ DJANGO_AVAILABLE = TRUE
    /\ USE_TZ = FALSE
    /\ tokens = EmptyRepo
    /\ now = 0
    /\ scheduled_updates = {}
    /\ issued_secrets = {}
    /\ auth_provider = "none"
    /\ valid_tokens = DefaultValidTokens
    /\ tool_scope_mapping = get_default_tool_scope_mapping
    /\ default_scope = "user"
    /\ registry = ServerRegistry
    /\ middleware = setup_middleware(FALSE)
    /\ log_requests = TRUE
    /\ log_responses = FALSE
    /\ no_auth = TRUE
    /\ use_django_auth = FALSE
    /\ IdleRequest

\* a request arrives with its Authorization header
ReceiveHeader ==
    /\ authorization_header' \in Headers
    /\ extracted' = [returned |-> FALSE, token |-> None]
    /\ UNCHANGED <<envVars, cfgVars, now, reqVars>>

\* extract_bearer_token(authorization_header) returns
ExtractBearerToken ==
    /\ ~extracted.returned
    /\ extracted' = [returned |-> TRUE,
                     token |-> extract_bearer_token(authorization_header)]
    /\ UNCHANGED <<authorization_header, envVars, cfgVars, now, reqVars>>

NextUtils == ReceiveHeader \/ ExtractBearerToken

SpecUtils == InitUtils /\ [][NextUtils]_vars

-----------------------------------------------------------------------------
(* Claims C1-C10 *)

\* the record the repository holds for the presented raw token, if any
PresentedFound ==
    presented # None /\ hash_sha512(presented[1]) \in DOMAIN tokens

PresentedRecord == tokens[hash_sha512(presented[1])]

\* the loader ran with its infrastructure in place
LoaderReady == DJANGO_AVAILABLE /\ db_up

\* C1 (Spec): on the invoke path, when the caller's scopes and the required
\* scopes ScopeRBAC resolved are disjoint, ScopeRBAC never called call_next.
C1_DisjointNeverForwarded ==
    (method = "call" /\ IsProxmoxToken(access_token) /\ forwarded > 0)
        => (access_token[1].scopes \cap required_scopes) # {}

\* a credential that names an active, unexpired token of the repository
ValidCredential ==
    /\ PresentedFound
    /\ PresentedRecord.is_active
    /\ (PresentedRecord.expires = None \/ PresentedRecord.expires[1] > now)

\* C2 (SpecServer): however the server was constructed, a tool handler runs
\* only for a request that carries a valid credential.
C2_HandlerRunsOnlyWithValidCredential ==
    handler_runs > 0 => ValidCredential

\* tag values a registered tool may carry, and the name-only resolution
TagArgs == {None} \cup {Some(tags) : tags \in SUBSET Scopes}

\* C3 (Spec): for every operation name and every tag value, the resolver of
\* the constructed ScopeRBAC returns a non-empty set, and for an operation
\* absent from tags and table exactly the default scope.
C3_RequiredScopesNonEmpty ==
    \A n \in ToolNames, tags \in TagArgs :
        LET required == get_tool_required_scopes(tool_scope_mapping,
                                                 default_scope, n, tags)
        IN /\ required # {}
           /\ ((tags \in {None, Some({})} /\ n \notin DOMAIN tool_scope_mapping)
                  => required = {default_scope})

\* C4 (SpecLoader): loading a raw token whose record is inactive fails, with
\* the result a digest without record gives (no token).
C4_InactiveTokenRejected ==
    (pc = "loaded" /\ PresentedFound /\ ~PresentedRecord.is_active)
        => access_token = None

\* C5 (SpecLoader): a token whose expiry instant is set and in the past is
\* rejected by the loader, whatever is_active, the role and the tier are.
C5_ExpiredTokenRejected ==
    (pc = "loaded" /\ PresentedFound /\ PresentedRecord.expires # None
        /\ PresentedRecord.expires[1] < now)
        => access_token = None

\* C5 witness: an active token of a superuser, expired, was loaded with the
\* repository reachable and rejected.
C5_Witness ==
    /\ pc = "loaded" /\ PresentedFound /\ LoaderReady /\ ~USE_TZ
    /\ PresentedRecord.is_active
    /\ PresentedRecord.user.is_superuser
    /\ PresentedRecord.permission = "admin"
    /\ PresentedRecord.expires # None
    /\ PresentedRecord.expires[1] < now
    /\ access_token = None

\* C6 (SpecLoader): an active token without expiry instant, found by the
\* lookup, is loaded at every instant, however long ago it was created.
C6_NoExpiryNeverRejected ==
    (pc = "loaded" /\ PresentedFound /\ LoaderReady
        /\ PresentedRecord.is_active /\ PresentedRecord.expires = None)
        => /\ access_token # None
           /\ access_token[1].type = "ProxmoxMCPToken"
           /\ access_token[1].token_hash = Some(hash_sha512(presented[1]))

\* C6 witness: a token without expiry created at 0 is loaded at the last
\* instant of the model.
C6_Witness ==
    /\ pc = "loaded" /\ PresentedFound /\ LoaderReady
    /\ PresentedRecord.is_active /\ PresentedRecord.expires = None
    /\ PresentedRecord.created_at < now
    /\ now = MaxTime
    /\ access_token # None

\* C7 (Spec): every finished invocation attempt left exactly one audit
\* record, naming the caller and the operation.
C7_ExactlyOneAuditRecord ==
    (method = "call" /\ pc = "done")
        => /\ Len(audit_log) = 1
           /\ audit_log[1].tool = req_tool
           /\ audit_log[1].user_info = UserInfo(access_token)

\* the request ended in the authorization denial of ScopeRBAC
EndedDenied ==
    /\ method = "call" /\ pc = "done"
    /\ result.exc = "ToolError" /\ result.text = MSG_AUTHORIZATION

\* C8 (Spec): a denial names as missing exactly the required scopes the
\* caller lacks and as held exactly the caller's scopes, and no handler ran;
\* a caller holding {user} invoking an operation requiring {admin} is denied
\* with admin missing and user held.
C8_DenialNamesMissingAndHeld ==
    /\ (EndedDenied /\ IsProxmoxToken(access_token))
          => /\ result.missing =
                    {sc \in required_scopes : sc \notin access_token[1].scopes}
             /\ result.held = access_token[1].scopes
             /\ handler_runs = 0
    /\ (method = "call" /\ pc = "done" /\ IsProxmoxToken(access_token)
           /\ access_token[1].scopes = {"user"}
           /\ required_scopes = {"admin"})
          => /\ EndedDenied
             /\ result.missing = {"admin"}
             /\ result.held = {"user"}
             /\ handler_runs = 0

\* C8 witness: scenario A, a {user} caller was denied an {admin} operation.
C8_Witness ==
    /\ EndedDenied
    /\ IsProxmoxToken(access_token)
    /\ access_token[1].scopes = {"user"}
    /\ required_scopes = {"admin"}
    /\ result.missing = {"admin"}
    /\ result.held = {"user"}
    /\ handler_runs = 0

-----------------------------------------------------------------------------
(* Claims C11-C20 *)

\* the required-scope set of a registered operation, tags included
RequiredOf(n) ==
    get_tool_required_scopes(tool_scope_mapping, default_scope, n,
                             Some(registry[n]))

\* C11 (Spec): on the list path, for a caller with scope set S and the
\* registered operations as candidates, the returned set is exactly the
\* candidates whose required-scope set intersects S.
C11_ListIsIntersectingCandidates ==
    (method = "list" /\ pc = "done" /\ IsProxmoxToken(access_token)
        /\ ~lookup_fails)
        => list_result =
              Some({n \in DOMAIN registry :
                       (RequiredOf(n) \cap access_token[1].scopes) # {}})

\* the precedence the resolver is to follow, for an operation name and tags
Precedence(n, tags) ==
    IF tags # {} THEN tags
    ELSE IF n \in DOMAIN tool_scope_mapping THEN tool_scope_mapping[n]
    ELSE {default_scope}

\* ScopeRBAC resolved the required scopes of the invocation
Resolved ==
    /\ method = "call" /\ IsProxmoxToken(access_token)
    /\ (forwarded > 0 \/ result.text = MSG_AUTHORIZATION)

\* C12 (Spec): the resolver follows the precedence tags, table, default for
\* every operation name and every tag value, and the required scopes of an
\* invocation whose tool lookup succeeded are the tags of the registered
\* operation when it has any, else its table entry, else the default scope.
C12_PrecedenceTagsTableDefault ==
    /\ \A n \in ToolNames, tags \in SUBSET Scopes :
          get_tool_required_scopes(tool_scope_mapping, default_scope, n,
                                   Some(tags)) = Precedence(n, tags)
    /\ \A n \in ToolNames :
          get_tool_required_scopes(tool_scope_mapping, default_scope, n, None)
              = Precedence(n, {})
    /\ (Resolved /\ ~lookup_fails /\ req_tool \in DOMAIN registry)
          => required_scopes = Precedence(req_tool, registry[req_tool])

\* C12 witness: scenario D, delete_vm is tagged {write} and stands in the
\* table under {admin}; a caller holding write was let through on the tag.
C12_Witness ==
    /\ Resolved /\ ~lookup_fails
    /\ req_tool = "delete_vm"
    /\ registry["delete_vm"] = {"write"}
    /\ "delete_vm" \in DOMAIN tool_scope_mapping
    /\ tool_scope_mapping["delete_vm"] = {"admin"}
    /\ required_scopes = {"write"}
    /\ "admin" \notin access_token[1].scopes
    /\ handler_runs = 1

\* the owner's role grants superuser rights, or without role the owner's flag
GrantsAdmin(user) ==
    \/ (user.role # None /\ user.role[1].is_superuser)
    \/ (user.role = None /\ user.is_superuser)

\* a scope set that is the baseline plus what the owner's role grants
ScopesFollowRole(scopes, user) ==
    /\ scopes \subseteq Scopes
    /\ "user" \in scopes
    /\ "admin" \in scopes <=> GrantsAdmin(user)
    /\ "write" \in scopes <=>
          (GrantsAdmin(user) \/ (user.role # None /\ user.role[1].can_write))

\* C13 (SpecLoader): the scopes of a loaded token are the baseline scope,
\* admin and write exactly for a superuser role (without role: a superuser
\* owner), and write also for a role that can write; tier, can_admin,
\* is_active and expiry change nothing. from_django_user derives the same.
C13_ScopeDerivation ==
    /\ (pc = "loaded" /\ access_token # None)
          => ScopesFollowRole(access_token[1].scopes, PresentedRecord.user)
    /\ \A u \in Users, perm \in PERMISSION_CHOICES :
          ScopesFollowRole(from_django_user(u, perm, 1, now).scopes, u)

\* C13 witness: a token of the lowest tier whose owner has no role and is a
\* superuser was loaded with all three scopes.
C13_Witness ==
    /\ pc = "loaded" /\ access_token # None
    /\ PresentedRecord.user.role = None
    /\ PresentedRecord.user.is_superuser
    /\ PresentedRecord.permission = "read"
    /\ access_token[1].scopes = {"user", "admin", "write"}

\* a row as create_token(expires_days = 1) makes it: expiry a day after issue
IssuedForOneDay(row) == row.expires = Some(row.created_at + DAY_SECONDS)

\* C14 (SpecRepo): a token issued with expires_days = 1 is loaded when
\* validated at the instant of issuance and rejected at every instant more
\* than 24 hours after it; the token from_django_user builds for one day is
\* unexpired at its instant and expired more than 24 hours later.
C14_OneDayTokenLifetime ==
    /\ (pc = "loaded" /\ PresentedFound /\ LoaderReady
           /\ IssuedForOneDay(PresentedRecord))
          => /\ (now = PresentedRecord.created_at => access_token # None)
             /\ (now > PresentedRecord.created_at + DAY_SECONDS
                    => access_token = None)
    /\ \A u \in Users :
          LET tok == from_django_user(u, "read", 1, now)
          IN /\ ~is_expired(tok, now)
             /\ \A later \in 1..MaxTime : is_expired(tok, now + DAY_SECONDS + later)

\* C15 (SpecLoader): every successful load of a token has scheduled an
\* update of that token's last_used timestamp.
C15_LoadSchedulesLastUsedUpdate ==
    (pc = "loaded" /\ access_token # None)
        => hash_sha512(presented[1]) \in scheduled_updates

C17_LoadReflectsRepository ==
    (pc = "loaded" /\ LoaderReady)
        => /\ access_token # None <=>
                 /\ PresentedFound
                 /\ \/ PresentedRecord.expires = None
                    \/ (~USE_TZ /\ PresentedRecord.expires[1] > now)
           /\ access_token # None =>
                 /\ ScopesFollowRole(access_token[1].scopes,
                                     PresentedRecord.user)
                 /\ access_token[1].permission = PresentedRecord.permission
                 /\ access_token[1].expires_at =
                        IF PresentedRecord.expires = None
                            THEN now + DAY_SECONDS
                            ELSE PresentedRecord.expires[1]

\* C17 witness: the owner's role, which had every flag at the start, was
\* removed, and the next load of the same secret came back with the
\* baseline scope only.
C17_Witness ==
    /\ pc = "loaded" /\ LoaderReady /\ PresentedFound
    /\ hash_sha512(presented[1]) \in DOMAIN RepoAtStart
    /\ RepoAtStart[hash_sha512(presented[1])].user.role # None
    /\ PresentedRecord.user = [RepoAtStart[hash_sha512(presented[1])].user
                                  EXCEPT !.role = None]
    /\ access_token # None
    /\ access_token[1].scopes = {"user"}

\* C18 (Spec): under log_requests = True, log_responses = False, every
\* invocation that reaches AuditMiddleware has its request line written
\* before the handler runs, and once the handler has run a completion line
\* (it returned) or a failure line (it raised) follows the request line.
C18_RequestThenCompletionOrFailure ==
    (method = "call" /\ log_requests /\ ~log_responses)
        => /\ (forwarded > 0 /\ pc \in {"handler", "out", "done"})
                 => /\ Len(audit_log) >= 1
                    /\ audit_log[1] = AuditRecord("called",
                                          UserInfo(access_token), req_tool)
           /\ (handler_runs > 0 /\ pc = "done")
                 => /\ Len(audit_log) = 2
                    /\ audit_log[2] =
                          AuditRecord(IF result.exc = "none" THEN "completed"
                                                             ELSE "failed",
                                      UserInfo(access_token), req_tool)

\* C19 (Spec): a failing write of the audit logger changes nothing for the
\* request: no request carries the logger's own exception, and the handler
\* of a registered operation runs whenever ScopeRBAC let the request through.
C19_AuditLoggerNeverRaises ==
    /\ result # LogWriteError
    /\ (method = "call" /\ pc = "done" /\ forwarded > 0
           /\ req_tool \in DOMAIN registry)
          => handler_runs = 1

\* C20 (SpecIssuer): after any sequence of create_token and save, the
\* token_hash of every row is the digest of a raw secret and no row holds a
\* raw secret, whatever the length of the secret.
C20_OnlyDigestsPersisted ==
    \A d \in DOMAIN tokens :
        /\ \E r \in RawSecrets : d = hash_token(<<r>>)
        /\ \A r \in RawSecrets : d # <<r>>

-----------------------------------------------------------------------------
(* Claims C21-C30 *)

\* C21 (SpecIssuer): whatever saves and update_last_used calls follow the
\* issuance of a token, its row stays under the digest of the raw secret
\* create_token returned: a stored digest is never hashed again.
C21_SaveKeepsDigest ==
    \A r \in issued_secrets : hash_token(<<r>>) \in DOMAIN tokens

\* C21 witness: an issued token whose last_used was updated is still found
\* under the digest of its secret, next to a row saved by a caller.
C21_Witness ==
    /\ \E r \in issued_secrets :
          /\ hash_token(<<r>>) \in DOMAIN tokens
          /\ tokens[hash_token(<<r>>)].last_used # None
    /\ Cardinality(DOMAIN tokens) > 1

\* both cases of a letter of the scheme
CaseVariants(c) ==
    CASE c = "b" -> {"b", "B"} [] c = "e" -> {"e", "E"}
      [] c = "a" -> {"a", "A"} [] c = "r" -> {"r", "R"}

\* the header reads: whitespace, the six letters of the scheme from position
\* i in either case, whitespace, a token from position j to k, whitespace
BearerShape(h, i, j, k) ==
    /\ \A p \in 1..(i - 1) : h[p] \in Whitespace
    /\ i + 7 <= j /\ j <= k
    /\ \A p \in 0..5 : h[i + p] \in CaseVariants(BEARER[p + 1])
    /\ \A p \in (i + 6)..(j - 1) : h[p] \in Whitespace
    /\ \A p \in j..k : h[p] \notin Whitespace
    /\ \A p \in (k + 1)..Len(h) : h[p] \in Whitespace

\* C22 (SpecUtils): extract_bearer_token returns the token exactly for a
\* header of the shape Bearer <token>, the scheme in any case, and returns
\* no credential for an absent header, another scheme, a missing token or
\* further parts.
C22_BearerExtraction ==
    extracted.returned =>
        IF authorization_header = None THEN extracted.token = None
        ELSE LET h == authorization_header[1] IN
             /\ extracted.token # None <=>
                   \E i \in 1..Len(h), j \in 1..Len(h), k \in 1..Len(h) :
                       BearerShape(h, i, j, k)
             /\ \A i \in 1..Len(h), j \in 1..Len(h), k \in 1..Len(h) :
                   BearerShape(h, i, j, k)
                       => extracted.token = Some(SubSeq(h, j, k))

\* C22 witness: the header "BEARER Tb" gave the token "Tb".
C22_Witness ==
    /\ extracted.returned
    /\ authorization_header =
          Some(<<"B", "E", "A", "R", "E", "R", " ", "T", "b">>)
    /\ extracted.token = Some(<<"T", "b">>)

\* what the caller's own request fixes of a denial: the caller's token, the
\* operation and the scope policy give the required scopes
RequiredForRequest ==
    IF req_tool \in DOMAIN registry /\ ~lookup_fails
        THEN Precedence(req_tool, registry[req_tool])
        ELSE Precedence(req_tool, {})

\* C23 (Spec): the denial a caller receives is fixed by the caller's own
\* AccessContext and the operation: it names scopes of the caller and of
\* the operation only, whatever tokens, roles and scopes other principals
\* have in the repository or the token table.
C23_DenialRevealsOnlyCaller ==
    EndedDenied =>
        /\ IsProxmoxToken(access_token)
        /\ result = Outcome("ToolError", MSG_AUTHORIZATION,
                            RequiredForRequest \ access_token[1].scopes,
                            access_token[1].scopes)

\* C23 witness: a caller holding {user} was denied delete_vm while the
\* repository holds the token of a superuser; the denial names admin as
\* missing and user as held, and no scope of the other principal.
C23_Witness ==
    /\ EndedDenied
    /\ auth_provider = "YartuMCPAuthProvider"
    /\ presented = Some("user-token")
    /\ \E d \in DOMAIN tokens :
          /\ d # hash_sha512("user-token")
          /\ "admin" \in DetermineScopes(tokens[d].user)
    /\ req_tool = "delete_vm"
    /\ result.held = {"user"}
    /\ result.missing \subseteq {"admin", "write"}

\* C24 (Spec): when ScopeRBAC let the caller through and the handler ran,
\* what on_call_tool hands back is what call_next handed to it, the same
\* result or the same error, and call_next was called once.
C24_ForwardsUnchanged ==
    [][(pc = "out" /\ middleware[depth] = "ScopeRBAC" /\ forwarded > 0
           /\ handler_runs = 1)
          => (result' = result /\ forwarded' = 1)]_vars

\* C25 (Spec): for every caller and every registered operation, on_call_tool
\* forwards the invocation to the handler exactly when on_list_tools would
\* list the operation for that caller, also when the tool lookup of the
\* invocation failed and the scopes were resolved from the name alone.
C25_ListAndInvokeAgree ==
    (Resolved /\ req_tool \in DOMAIN registry)
        => (forwarded > 0 <=>
               req_tool \in AllowedTools(tool_scope_mapping, default_scope,
                                         registry, access_token[1].scopes))

\* the three scope sets a caller can hold, each containing the one before
ScopeLadder == {{"user"}, {"user", "write"}, {"user", "write", "admin"}}

\* C26 (SpecLoader): every token load_access_token returns carries one of
\* exactly three scope sets, {user}, {user, write} or {user, write, admin}:
\* the baseline scope is always there and admin never comes without write.
C26_ScopeLadder ==
    (pc = "loaded" /\ access_token # None)
        => access_token[1].scopes \in ScopeLadder

\* C26 witness: a superuser role was loaded with the top of the ladder,
\* admin together with write.
C26_Witness ==
    /\ pc = "loaded" /\ access_token # None
    /\ PresentedRecord.user.role # None
    /\ PresentedRecord.user.role[1].is_superuser
    /\ ~PresentedRecord.user.role[1].can_write
    /\ access_token[1].scopes = {"user", "write", "admin"}

\* C27 (Spec): for the operation named by a request, the provider's
\* get_required_scopes, the set ScopeRBAC resolves from its default table
\* without tags, and the scope run_mcp_server prints for the tool are equal.
C27_ScopePoliciesAgree ==
    (method = "call" /\ pc # "idle")
        => /\ get_required_scopes(req_tool) =
                 get_tool_required_scopes(get_default_tool_scope_mapping,
                                          "user", req_tool, None)
           /\ req_tool \in DOMAIN tool_info
                 => get_required_scopes(req_tool) = {tool_info[req_tool]}

\* C28 (SpecLoader): for a stored token with an expiry instant and every
\* current instant, the instant equal to the expiry included, the loader
\* rejects the token as expired exactly when ApplicationToken.is_expired()
\* is true of it.
C28_ExpiryTestsAgree ==
    (pc = "loaded" /\ LoaderReady /\ ~USE_TZ /\ PresentedFound
        /\ PresentedRecord.expires # None)
        => (access_token = None
               <=> ApplicationToken_is_expired(PresentedRecord, now))

WithTierAndCanAdmin(row, perm, ca) ==
    [row EXCEPT !.permission = perm,
                !.user = [@ EXCEPT !.role =
                             IF @ = None THEN None
                             ELSE Some([@[1] EXCEPT !.can_admin = ca])]]

\* C30 (SpecLoader): the scopes of a loaded token depend neither on the
\* declared tier of the stored token nor on the can_admin flag of the role:
\* the same load on a row that differs only in these two returns a token
\* with the same scope set.
C30_TierAndCanAdminIgnored ==
    (pc = "loaded" /\ access_token # None)
        => \A perm \in PERMISSION_CHOICES, ca \in BOOLEAN :
              LET d == hash_sha512(presented[1])
                  other == load_access_token(presented[1],
                               [tokens EXCEPT ![d] =
                                   WithTierAndCanAdmin(@, perm, ca)],
                               now, DJANGO_AVAILABLE, USE_TZ, db_up)
              IN /\ other # None
                 /\ other[1].scopes = access_token[1].scopes

\* C30 witness: a token of the lowest tier whose role can write and has
\* can_admin set was loaded with the write scope and without admin.
C30_Witness ==
    /\ pc = "loaded" /\ access_token # None
    /\ PresentedRecord.permission = "read"
    /\ PresentedRecord.user.role # None
    /\ PresentedRecord.user.role[1].can_admin
    /\ PresentedRecord.user.role[1].can_write
    /\ ~PresentedRecord.user.role[1].is_superuser
    /\ access_token[1].scopes = {"user", "write"}

====
